---- MODULE Spec2Model ----
(***************************************************************************)
(* Model of the admission-control queue of KreftBot, class RequestQueue of *)
(* src/src/utils/rateLimiter.ts, and of its rate gate, class               *)
(* RateLimitMiddleware of src/src/middleware/rateLimiter.ts.               *)
(*                                                                         *)
(* Every public method and every timer callback of RequestQueue runs to    *)
(* completion on the single-threaded event loop, so each one is an atomic  *)
(* action.  Promise continuations run later as microtasks and never touch  *)
(* the queue synchronously, so resolve()/reject() are modelled as updates  *)
(* of the promise table only.                                              *)
(***************************************************************************)
EXTENDS Integers, Sequences, FiniteSets, TLC

\* ---------------------------------------------------------------- bounds
NumUsers == 2
NumScenarioUsers == 4
MaxOps == 5
MaxPerUser == 2
MaxGlobal == 3
NumGateUsers == 1
MaxAdvances == 2
MaxWindowChecks == 11
MaxWaitPolls == 2
MaxSignals == 3
MaxHandlers == 2
MaxCommands == 2

Users == 1..NumUsers

VARIABLES
  maxConcurrentPerUser, \* constructor argument, fixed afterwards
  maxGlobalConcurrent,  \* constructor argument, fixed afterwards
  activeOperations,     \* Map<userId, count>: a function whose DOMAIN is the key set
  totalActive,
  queue,                \* QueuedRequest[]: sequence of [id, userId]
  timers,               \* ids of the requests whose setTimeout is armed
  promise,              \* per acquire call: state, error and number of resolve/reject calls
  releaser,             \* per release capability handed out: userId and number of invocations
  hist                  \* operations performed so far: [op, arg, ret]

\* the state of RequestQueue and of its callers
queueVars == <<maxConcurrentPerUser, maxGlobalConcurrent, activeOperations,
               totalActive, queue, timers, promise, releaser, hist>>

VARIABLES
  now,                  \* Date.now(), in milliseconds since the process started
  userLimits,           \* RateLimitMiddleware.userLimits: Map<userId, UserRateLimit>
  lastCheck,            \* what the last run of the middleware did
  windowChecks,         \* per user: runs of the middleware since the minute deadline was set
  advances              \* number of times the clock has been advanced

\* the state of RateLimitMiddleware and of its callers
gateVars == <<userLimits, lastCheck, windowChecks, advances>>

VARIABLES
  waiter,               \* the call of waitForCompletion: where it is and what it returned
  due                   \* per queued request: the time its setTimeout is set for

\* the state of the timed callers of RequestQueue
timedVars == <<waiter, due>>

VARIABLES
  recent,               \* per user: the allowed checks of the last minute, time -> number
  shutdown,             \* gracefulShutdown: isShuttingDown, where it is, what it has called
  handlers,             \* the invocations of handleFormatSelection
  requestQueue          \* the RequestQueue instance made by the entry point

\* the state of the program around the queue and the gate
progVars == <<shutdown, handlers, requestQueue>>

\* the state of the observers and of the rest of the program
extraVars == <<recent, progVars>>

vars == <<maxConcurrentPerUser, maxGlobalConcurrent, activeOperations,
          totalActive, queue, timers, promise, releaser, hist,
          now, userLimits, lastCheck, windowChecks, advances, waiter, due,
          recent, shutdown, handlers, requestQueue>>

\* ------------------------------------------------------------ map helpers
\* this.activeOperations.get(userId) || 0
Get(m, u) == IF u \in DOMAIN m THEN m[u] ELSE 0

\* Map.set
MapSet(m, u, v) == [k \in DOMAIN m \cup {u} |-> IF k = u THEN v ELSE m[k]]

\* Map.delete
MapDelete(m, u) == [k \in DOMAIN m \ {u} |-> m[k]]

\* variant: no clamp at zero
Max0NoClamp(n) == n

\* Math.max(0, n)
Max0(n) == IF n < 0 THEN 0 ELSE n

\* Array.splice(i, 1) on a 1-based sequence
Splice(s, i) == SubSeq(s, 1, i - 1) \o SubSeq(s, i + 1, Len(s))

\* Sum of the values of a map
RECURSIVE MapSum(_)
MapSum(m) ==
  IF DOMAIN m = {} THEN 0
  ELSE LET k == CHOOSE x \in DOMAIN m : TRUE
       IN m[k] + MapSum(MapDelete(m, k))

\* ids of the entries in a queue
QueueIds(q) == {q[i].id : i \in 1..Len(q)}

\* --------------------------------------------------------------- promises
ErrTimeout == "Request timed out in queue"
ErrCancelled == "Cancelled by user"
ErrShutdown == "System shutdown"

NewPromise == [state |-> "pending", error |-> "", settles |-> 0]

\* A promise keeps its first settlement; settles counts resolve/reject calls.
Settle(p, c, st, err) ==
  [p EXCEPT ![c] = [state   |-> IF @.state = "pending" THEN st ELSE @.state,
                    error   |-> IF @.state = "pending" THEN err ELSE @.error,
                    settles |-> @.settles + 1]]

\* reject every id of the sequence ids, in order
RECURSIVE RejectAll(_, _, _)
RejectAll(p, ids, err) ==
  IF ids = <<>> THEN p
  ELSE RejectAll(Settle(p, Head(ids), "rejected", err), Tail(ids), err)

\* clearTimeout of every id of the sequence ids
RECURSIVE ClearTimeouts(_, _)
ClearTimeouts(t, ids) ==
  IF ids = <<>> THEN t ELSE ClearTimeouts(t \ {Head(ids)}, Tail(ids))

\* the id of the next acquire call.  The code builds the request id from the
\* user id, Date.now() and six random base-36 digits; ids are taken to be
\* unique, and are numbered here in the order of the calls.
NextCall == Cardinality(DOMAIN promise) + 1

Record(op, arg, ret) == Append(hist, [op |-> op, arg |-> arg, ret |-> ret])

\* ------------------------------------------------------------------- Init
\* everything but the two limits, as the constructors and module initialisers
\* leave it
Fresh ==
  /\ activeOperations = <<>>
  /\ totalActive = 0
  /\ queue = <<>>
  /\ timers = {}
  /\ promise = <<>>
  /\ releaser = <<>>
  /\ hist = <<>>
  /\ now = 0
  /\ userLimits = <<>>
  /\ lastCheck = [userId |-> 0, limited |-> FALSE, timeRemaining |-> 0,
                  passed |-> FALSE]
  /\ windowChecks = <<>>
  /\ advances = 0
  /\ waiter = [pc |-> "idle", startTime |-> 0, timeoutMs |-> 0, result |-> "none"]
  /\ due = <<>>
  /\ recent = <<>>
  /\ shutdown = [isShuttingDown |-> FALSE, pc |-> "running", log |-> <<>>,
                 seen |-> {}, calls |-> 0, exit |-> "none"]
  /\ handlers = <<>>
  /\ requestQueue = [activeOperations |-> <<>>, totalActive |-> 0, queue |-> <<>>,
                     timers |-> {}, promise |-> <<>>, hist |-> <<>>]

Init ==
  /\ maxConcurrentPerUser \in 0..MaxPerUser
  /\ maxGlobalConcurrent \in 0..MaxGlobal
  /\ Fresh

\* ---------------------------------------------------------------- acquire
\* variant: the two limits joined by "and"
MustQueueBoth(currentCount, total) ==
  currentCount >= maxConcurrentPerUser /\ total >= maxGlobalConcurrent

\* variant: strict comparisons
MustQueueStrict(currentCount, total) ==
  currentCount > maxConcurrentPerUser \/ total > maxGlobalConcurrent

\* the condition under which acquire queues the request
MustQueue(currentCount, total) ==
  currentCount >= maxConcurrentPerUser \/ total >= maxGlobalConcurrent

\* variant: the new entry is put at the head of the queue
EnqueueFront(q, c, userId) == <<[id |-> c, userId |-> userId]>> \o q

\* this.queue.push({ id, userId, ... })
Enqueue(q, c, userId) == Append(q, [id |-> c, userId |-> userId])

Acquire(userId) ==
  LET currentCount == Get(activeOperations, userId)
      c == NextCall
  IN /\ Len(hist) < MaxOps
     /\ IF MustQueue(currentCount, totalActive)
        THEN /\ timers' = timers \cup {c}
             /\ queue' = Enqueue(queue, c, userId)
             /\ promise' = MapSet(promise, c, NewPromise)
             /\ hist' = Record("acquire", userId, 0)
             /\ UNCHANGED <<activeOperations, totalActive, releaser>>
        ELSE /\ activeOperations' = MapSet(activeOperations, userId, currentCount + 1)
             /\ totalActive' = totalActive + 1
             /\ promise' = Settle(MapSet(promise, c, NewPromise), c, "resolved", "")
             /\ releaser' = MapSet(releaser, c, [userId |-> userId, calls |-> 0])
             /\ hist' = Record("acquire", userId, 1)
             /\ UNCHANGED <<queue, timers>>
     /\ UNCHANGED <<maxConcurrentPerUser, maxGlobalConcurrent>>

\* ---------------------------------------------------------- processQueue
\* variant: only the entry at index i is examined
ScanQueueHeadOnly(q, ao, i) ==
  IF i > Len(q) THEN 0
  ELSE IF Get(ao, q[i].userId) < maxConcurrentPerUser THEN i
  ELSE 0

\* variant: the scan takes the last eligible entry instead of the first
ScanQueueLast(q, ao, i) ==
  LET eligible == {j \in i..Len(q) : Get(ao, q[j].userId) < maxConcurrentPerUser}
  IN IF eligible = {} THEN 0
     ELSE CHOOSE j \in eligible : \A k \in eligible : k <= j

\* the for loop of processQueue: index of the first entry at or after i whose
\* user is below the per-user limit, 0 when the loop ends without finding one
RECURSIVE ScanQueue(_, _, _)
ScanQueue(q, ao, i) ==
  IF i > Len(q) THEN 0
  ELSE IF Get(ao, q[i].userId) < maxConcurrentPerUser THEN i
  ELSE ScanQueue(q, ao, i + 1)

\* index of the entry processQueue promotes, 0 when it promotes none
PromoteIndex(q, ao, total) ==
  IF Len(q) = 0 THEN 0
  ELSE IF total >= maxGlobalConcurrent THEN 0
  ELSE ScanQueue(q, ao, 1)

\* variant: the promotion does not count the new operation in totalActive
PromoteNoTotal(q, ao, total, t, p, r, i) ==
  LET request == q[i]
      currentCount == Get(ao, request.userId)
  IN [queue |-> Splice(q, i),
      activeOperations |-> MapSet(ao, request.userId, currentCount + 1),
      totalActive |-> total,
      timers |-> t \ {request.id},
      promise |-> Settle(p, request.id, "resolved", ""),
      releaser |-> MapSet(r, request.id, [userId |-> request.userId, calls |-> 0]),
      promoted |-> request.id]

\* the body of the if of processQueue's loop: promotion of the entry at index i
Promote(q, ao, total, t, p, r, i) ==
  LET request == q[i]
      currentCount == Get(ao, request.userId)
  IN [queue |-> Splice(q, i),
      activeOperations |-> MapSet(ao, request.userId, currentCount + 1),
      totalActive |-> total + 1,
      timers |-> t \ {request.id},
      promise |-> Settle(p, request.id, "resolved", ""),
      releaser |-> MapSet(r, request.id, [userId |-> request.userId, calls |-> 0]),
      promoted |-> request.id]

\* variant: the loop goes on after a promotion (no return), i being
\* incremented after the splice
RECURSIVE PromoteOn(_, _)
PromoteOn(n, i) ==
  IF i > Len(n.queue) THEN n
  ELSE IF Get(n.activeOperations, n.queue[i].userId) < maxConcurrentPerUser
       THEN PromoteOn(Promote(n.queue, n.activeOperations, n.totalActive,
                              n.timers, n.promise, n.releaser, i), i + 1)
       ELSE PromoteOn(n, i + 1)

processQueueNoReturn(q, ao, total, t, p, r) ==
  LET n == [queue |-> q, activeOperations |-> ao, totalActive |-> total,
            timers |-> t, promise |-> p, releaser |-> r, promoted |-> 0]
  IN IF Len(q) = 0 \/ total >= maxGlobalConcurrent THEN n ELSE PromoteOn(n, 1)

\* processQueue on the state (q, ao, total, t, p, r): the state it leaves,
\* and the id of the request it promoted (0 for none)
processQueue(q, ao, total, t, p, r) ==
  LET i == PromoteIndex(q, ao, total)
  IN IF i = 0
     THEN [queue |-> q, activeOperations |-> ao, totalActive |-> total,
           timers |-> t, promise |-> p, releaser |-> r, promoted |-> 0]
     ELSE Promote(q, ao, total, t, p, r, i)

\* -------------------------------------------------------- createReleaser
\* variant: the release leaves the user's own count as it is
DecrementNoUser(ao, total, userId) ==
  [activeOperations |-> ao, totalActive |-> Max0(total - 1)]

\* variant: the release leaves totalActive as it is
DecrementNoTotal(ao, total, userId) ==
  LET currentCount == Get(ao, userId)
      newCount == Max0(currentCount - 1)
  IN [activeOperations |-> IF newCount = 0 THEN MapDelete(ao, userId)
                                           ELSE MapSet(ao, userId, newCount),
      totalActive |-> total]

\* the counters after the decrement of the release function
Decrement(ao, total, userId) ==
  LET currentCount == Get(ao, userId)
      newCount == Max0(currentCount - 1)
  IN [activeOperations |-> IF newCount = 0 THEN MapDelete(ao, userId)
                                           ELSE MapSet(ao, userId, newCount),
      totalActive |-> Max0(total - 1)]

\* one invocation of the release function of capability c
Invoke(c) ==
  LET userId == releaser[c].userId
      d == Decrement(activeOperations, totalActive, userId)
      n == processQueue(queue, d.activeOperations, d.totalActive, timers, promise,
                        [releaser EXCEPT ![c].calls = @ + 1])
  IN /\ Len(hist) < MaxOps
     /\ queue' = n.queue
     /\ activeOperations' = n.activeOperations
     /\ totalActive' = n.totalActive
     /\ timers' = n.timers
     /\ promise' = n.promise
     /\ releaser' = n.releaser
     /\ hist' = Record("release", c, n.promoted)
     /\ UNCHANGED <<maxConcurrentPerUser, maxGlobalConcurrent>>

\* the first invocation of a release capability
Release(c) ==
  /\ releaser[c].calls = 0
  /\ Invoke(c)

\* --------------------------------------------------------- cancelRequest
\* queue.findIndex(req => req.id === requestId), 0 for -1
RECURSIVE FindIndex(_, _, _)
FindIndex(q, requestId, i) ==
  IF i > Len(q) THEN 0
  ELSE IF q[i].id = requestId THEN i
  ELSE FindIndex(q, requestId, i + 1)

\* variant: the entry is removed but its promise is left alone
cancelRequestNoReject(q, t, p, requestId, error) ==
  LET index == FindIndex(q, requestId, 1)
  IN IF index = 0
     THEN [queue |-> q, timers |-> t, promise |-> p]
     ELSE [queue |-> Splice(q, index),
           timers |-> t \ {q[index].id},
           promise |-> p]

\* variant: the entry is rejected but stays in the queue
cancelRequestNoSplice(q, t, p, requestId, error) ==
  LET index == FindIndex(q, requestId, 1)
  IN IF index = 0
     THEN [queue |-> q, timers |-> t, promise |-> p]
     ELSE [queue |-> q,
           timers |-> t \ {q[index].id},
           promise |-> Settle(p, q[index].id, "rejected", error)]

cancelRequest(q, t, p, requestId, error) ==
  LET index == FindIndex(q, requestId, 1)
  IN IF index = 0
     THEN [queue |-> q, timers |-> t, promise |-> p]
     ELSE [queue |-> Splice(q, index),
           timers |-> t \ {q[index].id},
           promise |-> Settle(p, q[index].id, "rejected", error)]

\* the setTimeout callback of request c fires: the timer is armed until it
\* fires or is cleared
TimerFires(c) ==
  LET n == cancelRequest(queue, timers \ {c}, promise, c, ErrTimeout)
  IN /\ c \in timers
     /\ queue' = n.queue
     /\ timers' = n.timers
     /\ promise' = n.promise
     /\ hist' = Record("timeout", c, 0)
     /\ UNCHANGED <<maxConcurrentPerUser, maxGlobalConcurrent, activeOperations,
                    totalActive, releaser>>

\* a timer firing at any time, as one of the MaxOps operations of a run
QueueTimeout(c) ==
  /\ Len(hist) < MaxOps
  /\ TimerFires(c)

\* ---------------------------------------------------- cancelUserRequests
\* the loop of cancelUserRequests, from index i down to 1: the queue it
\* leaves and the ids it removed, in the order of removal
RECURSIVE CancelLoop(_, _, _, _)
CancelLoop(q, i, userId, removed) ==
  IF i < 1 THEN [queue |-> q, removed |-> removed]
  ELSE IF q[i].userId = userId
       THEN CancelLoop(Splice(q, i), i - 1, userId, Append(removed, q[i].id))
       ELSE CancelLoop(q, i - 1, userId, removed)

\* variant: the loop starts one index too low
cancelUserRequestsOffByOne(q, t, p, userId) ==
  LET n == CancelLoop(q, Len(q) - 1, userId, <<>>)
  IN [queue |-> n.queue,
      timers |-> ClearTimeouts(t, n.removed),
      promise |-> RejectAll(p, n.removed, ErrCancelled),
      cancelledCount |-> Len(n.removed)]

cancelUserRequests(q, t, p, userId) ==
  LET n == CancelLoop(q, Len(q), userId, <<>>)
  IN [queue |-> n.queue,
      timers |-> ClearTimeouts(t, n.removed),
      promise |-> RejectAll(p, n.removed, ErrCancelled),
      cancelledCount |-> Len(n.removed)]

CancelUserRequests(userId) ==
  LET n == cancelUserRequests(queue, timers, promise, userId)
  IN /\ Len(hist) < MaxOps
     /\ queue' = n.queue
     /\ timers' = n.timers
     /\ promise' = n.promise
     /\ hist' = Record("cancelUserRequests", userId, n.cancelledCount)
     /\ UNCHANGED <<maxConcurrentPerUser, maxGlobalConcurrent, activeOperations,
                    totalActive, releaser>>

\* ------------------------------------------------------------ clearQueue
\* variant: the entries are rejected but the array is not replaced
clearQueueKeep(q, t, p) ==
  LET ids == [i \in 1..Len(q) |-> q[i].id]
  IN [queue |-> q,
      timers |-> ClearTimeouts(t, ids),
      promise |-> RejectAll(p, ids, ErrShutdown)]

\* variant: the array is replaced without rejecting the entries
clearQueueNoReject(q, t, p) ==
  LET ids == [i \in 1..Len(q) |-> q[i].id]
  IN [queue |-> <<>>,
      timers |-> ClearTimeouts(t, ids),
      promise |-> p]

\* variant: the entries are rejected with the message of a user's cancel
clearQueueAsCancel(q, t, p) ==
  LET ids == [i \in 1..Len(q) |-> q[i].id]
  IN [queue |-> <<>>,
      timers |-> ClearTimeouts(t, ids),
      promise |-> RejectAll(p, ids, ErrCancelled)]

clearQueue(q, t, p) ==
  LET ids == [i \in 1..Len(q) |-> q[i].id]
  IN [queue |-> <<>>,
      timers |-> ClearTimeouts(t, ids),
      promise |-> RejectAll(p, ids, ErrShutdown)]

ClearQueue ==
  LET n == clearQueue(queue, timers, promise)
  IN /\ Len(hist) < MaxOps
     /\ queue' = n.queue
     /\ timers' = n.timers
     /\ promise' = n.promise
     /\ hist' = Record("clearQueue", 0, Len(queue))
     /\ UNCHANGED <<maxConcurrentPerUser, maxGlobalConcurrent, activeOperations,
                    totalActive, releaser>>

\* ------------------------------------------------------------------ Next
\* the operations of RequestQueue leave the clock, the rate gate and the
\* timed callers alone
Next ==
  \/ \E u \in Users : Acquire(u) /\ UNCHANGED <<now, gateVars, timedVars, extraVars>>
  \/ \E c \in DOMAIN releaser : Release(c) /\ UNCHANGED <<now, gateVars, timedVars, extraVars>>
  \/ \E c \in timers : QueueTimeout(c) /\ UNCHANGED <<now, gateVars, timedVars, extraVars>>
  \/ \E u \in Users : CancelUserRequests(u) /\ UNCHANGED <<now, gateVars, timedVars, extraVars>>
  \/ ClearQueue /\ UNCHANGED <<now, gateVars, timedVars, extraVars>>

Spec == Init /\ [][Next]_vars

\* -------------------------------------------------------------- getStats
getStats ==
  [totalActive |-> totalActive,
   totalQueued |-> Len(queue),
   activeByUser |-> activeOperations]

\* ------------------------------- a queue with limits 2 and 3 and more users
\* new RequestQueue(2, 3), used by acquire and release calls of
\* NumScenarioUsers users
ScenarioUsers == 1..NumScenarioUsers

InitScenario ==
  /\ Init
  /\ maxConcurrentPerUser = 2
  /\ maxGlobalConcurrent = 3

NextScenario ==
  \/ \E u \in ScenarioUsers : Acquire(u) /\ UNCHANGED <<now, gateVars, timedVars, extraVars>>
  \/ \E c \in DOMAIN releaser : Release(c) /\ UNCHANGED <<now, gateVars, timedVars, extraVars>>

SpecScenario == InitScenario /\ [][NextScenario]_vars

\* ------------------------------------------- repeated release invocations
\* a release capability that has been invoked is invoked again: the function
\* returned by createReleaser keeps no record of having run
ReleaseAgain(c) ==
  /\ releaser[c].calls >= 1
  /\ Invoke(c)

NextMulti ==
  \/ Next
  \/ \E c \in DOMAIN releaser : ReleaseAgain(c) /\ UNCHANGED <<now, gateVars, timedVars, extraVars>>

SpecMulti == Init /\ [][NextMulti]_vars

\* ===================================================== RateLimitMiddleware
PerMinute == 10
MinuteMs == 60000
HourMs == 3600000
DayMs == 86400000
MsPerSecond == 1000

GateUsers == 1..NumGateUsers

\* the steps by which the clock is advanced
Jumps == {1, MinuteMs - 1, HourMs - 1, DayMs - 1}

\* Math.ceil(a / b) for b > 0
CeilDiv(a, b) == -((-a) \div b)

\* the entry isRateLimited makes for a user it has not seen
NewUserLimit(t) ==
  [requestCount |-> 1,
   firstRequestTime |-> t,
   windowResets |-> [minute |-> t + MinuteMs,
                     hour |-> t + HourMs,
                     day |-> t + DayMs]]

\* "check and reset windows": the three ifs, in the order of the code
\* variant: the minute window is reset without its counter
ResetMinuteKeepCount(e, t) ==
  IF t >= e.windowResets.minute
  THEN [e EXCEPT !.windowResets.minute = t + MinuteMs]
  ELSE e

ResetMinute(e, t) ==
  IF t >= e.windowResets.minute
  THEN [e EXCEPT !.windowResets.minute = t + MinuteMs, !.requestCount = 0]
  ELSE e

\* variant: the hour deadline moves on by one hour from where it was
ResetHourByLength(e, t) ==
  IF t >= e.windowResets.hour
  THEN [e EXCEPT !.windowResets.hour = @ + HourMs]
  ELSE e

ResetHour(e, t) ==
  IF t >= e.windowResets.hour
  THEN [e EXCEPT !.windowResets.hour = t + HourMs]
  ELSE e

ResetDay(e, t) ==
  IF t >= e.windowResets.day
  THEN [e EXCEPT !.windowResets.day = t + DayMs]
  ELSE e

\* variant: the limit is reached one request early
OverLimitEarly(minuteRequests) == minuteRequests >= PerMinute

\* minuteRequests > this.limits.perMinute
OverLimit(minuteRequests) == minuteRequests > PerMinute

\* isRateLimited(userId) at time t on the table ul: the table it leaves and
\* the object it returns; timeRemaining 0 stands for an absent timeRemaining
isRateLimited(ul, t, userId) ==
  IF userId \notin DOMAIN ul
  THEN [userLimits |-> MapSet(ul, userId, NewUserLimit(t)),
        limited |-> FALSE, timeRemaining |-> 0]
  ELSE LET userLimit == ResetDay(ResetHour(ResetMinute(ul[userId], t), t), t)
           minuteRequests == userLimit.requestCount + 1
       IN IF OverLimit(minuteRequests)
          THEN [userLimits |-> MapSet(ul, userId, userLimit),
                limited |-> TRUE,
                timeRemaining |->
                  CeilDiv(userLimit.windowResets.minute - t, MsPerSecond)]
          ELSE [userLimits |->
                  MapSet(ul, userId,
                         [userLimit EXCEPT !.requestCount = minuteRequests]),
                limited |-> FALSE, timeRemaining |-> 0]

\* the runs of the middleware counted for userId after a run that left the
\* table ul2: the count restarts when the minute deadline has been set anew
CountCheck(ul2, userId) ==
  IF userId \in DOMAIN userLimits
     /\ ul2[userId].windowResets.minute = userLimits[userId].windowResets.minute
  THEN MapSet(windowChecks, userId, Get(windowChecks, userId) + 1)
  ELSE MapSet(windowChecks, userId, 1)

\* variant: the limited branch replies and falls through to next()
BlockedNoReturn(limited, timeRemaining) == FALSE

\* if (limited && timeRemaining) { ...; return; }
Blocked(limited, timeRemaining) == limited /\ timeRemaining # 0

\* the function returned by middleware(), run for an update of userId
\* (0: an update without ctx.from.id); passed tells whether next() is called
Middleware(userId) ==
  IF userId = 0
  THEN /\ lastCheck' = [userId |-> 0, limited |-> FALSE, timeRemaining |-> 0,
                        passed |-> TRUE]
       /\ UNCHANGED <<now, userLimits, windowChecks, advances>>
  ELSE LET r == isRateLimited(userLimits, now, userId)
       IN /\ (userId \in DOMAIN userLimits
                /\ now < userLimits[userId].windowResets.minute)
               => Get(windowChecks, userId) < MaxWindowChecks
          /\ userLimits' = r.userLimits
          /\ lastCheck' = [userId |-> userId, limited |-> r.limited,
                           timeRemaining |-> r.timeRemaining,
                           passed |-> ~Blocked(r.limited, r.timeRemaining)]
          /\ windowChecks' = CountCheck(r.userLimits, userId)
          /\ UNCHANGED <<now, advances>>

\* cleanup(): the entries whose day deadline lies more than a day back go
cleanup(ul, t) ==
  LET dayAgo == t - DayMs
      kept == {u \in DOMAIN ul : ~(ul[u].windowResets.day < dayAgo)}
  IN [u \in kept |-> ul[u]]

\* the setInterval callback of getRateLimitMiddleware, an hour or more after
\* the instance was made
Cleanup ==
  /\ now >= HourMs
  /\ userLimits' = cleanup(userLimits, now)
  /\ windowChecks' = [u \in DOMAIN windowChecks \cap DOMAIN userLimits' |->
                        windowChecks[u]]
  /\ UNCHANGED <<now, lastCheck, advances>>

\* time passes
Advance(d) ==
  /\ advances < MaxAdvances
  /\ now' = now + d
  /\ advances' = advances + 1
  /\ UNCHANGED <<userLimits, lastCheck, windowChecks>>

InitGate ==
  /\ Init
  /\ maxConcurrentPerUser = MaxPerUser
  /\ maxGlobalConcurrent = MaxGlobal

\* the allowed checks of user u in the last minute
RecentOf(r, u) == IF u \in DOMAIN r THEN r[u] ELSE <<>>

\* the record of allowed checks after the run of the middleware for userId
\* that returned limited
Noted(r, userId, limited, t) ==
  IF userId = 0 \/ limited THEN r
  ELSE MapSet(r, userId, MapSet(RecentOf(r, userId), t, Get(RecentOf(r, userId), t) + 1))

\* the record of allowed checks at time t: those of the minute that ends at t
Pruned(r, t) ==
  [u \in DOMAIN r |->
     [x \in {y \in DOMAIN r[u] : y > t - MinuteMs} |-> r[u][x]]]

NextGate ==
  \/ \E u \in GateUsers \cup {0} : Middleware(u) /\ UNCHANGED <<queueVars, timedVars, extraVars>>
  \/ \E d \in Jumps : Advance(d) /\ UNCHANGED <<queueVars, timedVars, extraVars>>
  \/ Cleanup /\ UNCHANGED <<queueVars, timedVars, extraVars>>

SpecGate == InitGate /\ [][NextGate]_vars

\* the rate gate with the allowed checks of the last minute on record
NextAudit ==
  \/ \E u \in GateUsers \cup {0} :
       /\ Middleware(u)
       /\ recent' = Noted(recent, u, lastCheck'.limited, now)
       /\ UNCHANGED <<queueVars, timedVars, progVars>>
  \/ \E d \in Jumps :
       /\ Advance(d)
       /\ recent' = Pruned(recent, now')
       /\ UNCHANGED <<queueVars, timedVars, progVars>>
  \/ Cleanup /\ UNCHANGED <<queueVars, timedVars, extraVars>>

SpecAudit == InitGate /\ [][NextAudit]_vars

\* ======================================================= waitForCompletion
PollInterval == 100

\* the timeoutMs arguments tried
Timeouts == {k * PollInterval : k \in 0..MaxWaitPolls}

\* setTimeout(resolve, 100) wakes the loop 100 ms later, or later than that
PollDelays == {PollInterval, PollInterval + PollInterval \div 2}

\* variant: the loop gives up as soon as timeoutMs has elapsed
LoopTestEarly(w, t) ==
  IF totalActive > 0
  THEN IF t - w.startTime >= w.timeoutMs
       THEN [w EXCEPT !.pc = "done", !.result = "false"]
       ELSE [w EXCEPT !.pc = "waiting"]
  ELSE [w EXCEPT !.pc = "done", !.result = "true"]

\* one pass through the while loop at time t of the instance whose
\* totalActive is total: return true, return false, or go to sleep
LoopTestOn(total, w, t) ==
  IF total > 0
  THEN IF t - w.startTime > w.timeoutMs
       THEN [w EXCEPT !.pc = "done", !.result = "false"]
       ELSE [w EXCEPT !.pc = "waiting"]
  ELSE [w EXCEPT !.pc = "done", !.result = "true"]

\* one pass through the while loop at time t: return true, return false, or
\* go to sleep for the poll interval
LoopTest(w, t) == LoopTestOn(totalActive, w, t)

\* waitForCompletion(timeoutMs) is called: startTime is read and the loop
\* condition is tested for the first time
WaitStart(timeoutMs) ==
  /\ waiter.pc = "idle"
  /\ waiter' = LoopTest([pc |-> "idle", startTime |-> now,
                         timeoutMs |-> timeoutMs, result |-> "none"], now)
  /\ UNCHANGED <<queueVars, now, gateVars, due>>

\* the poll timer fires d milliseconds after it was set and the loop
\* condition is tested again
WaitPoll(d) ==
  /\ waiter.pc = "waiting"
  /\ now' = now + d
  /\ waiter' = LoopTest(waiter, now')
  /\ UNCHANGED <<queueVars, gateVars, due>>

InitWait ==
  /\ Init
  /\ maxConcurrentPerUser = MaxPerUser
  /\ maxGlobalConcurrent = MaxGlobal

\* acquire, release and clearQueue calls around one call of waitForCompletion
NextWait ==
  \/ \E u \in Users : Acquire(u) /\ UNCHANGED <<now, gateVars, timedVars, extraVars>>
  \/ \E c \in DOMAIN releaser : Release(c) /\ UNCHANGED <<now, gateVars, timedVars, extraVars>>
  \/ ClearQueue /\ UNCHANGED <<now, gateVars, timedVars, extraVars>>
  \/ \E t \in Timeouts : WaitStart(t) /\ UNCHANGED extraVars
  \/ \E d \in PollDelays : WaitPoll(d) /\ UNCHANGED extraVars

\* the poll timer fires
FairWait == WF_vars(\E d \in PollDelays : WaitPoll(d) /\ UNCHANGED extraVars)

SpecWait == InitWait /\ [][NextWait]_vars /\ FairWait

\* ======================================================= the queue timeout
QueueTimeoutMs == 600000

\* the lengths of time that pass between two events
PassSteps == {QueueTimeoutMs \div 2, QueueTimeoutMs}

\* acquire at time now: a queued request gets
\* setTimeout(() => this.cancelRequest(...), this.queueTimeout)
AcquireTimed(userId) ==
  /\ Acquire(userId)
  /\ due' = IF MustQueue(Get(activeOperations, userId), totalActive)
            THEN MapSet(due, NextCall, now + QueueTimeoutMs)
            ELSE due

\* the timer of request c fires once the time it was set for has come
Expire(c) ==
  /\ c \in timers
  /\ now >= due[c]
  /\ TimerFires(c)

\* d milliseconds pass while timers are armed; an armed timer fires when it
\* is due, so time does not pass beyond the first of them
Pass(d) ==
  /\ timers # {}
  /\ \A c \in timers : now + d <= due[c]
  /\ now' = now + d

\* new RequestQueue(1, 2, 10 * 60 * 1000)
InitExpiry ==
  /\ Init
  /\ maxConcurrentPerUser = 1
  /\ maxGlobalConcurrent = 2

NextExpiry ==
  \/ \E u \in Users : AcquireTimed(u) /\ UNCHANGED <<now, gateVars, waiter, extraVars>>
  \/ \E c \in DOMAIN releaser : Release(c) /\ UNCHANGED <<now, gateVars, timedVars, extraVars>>
  \/ \E u \in Users : CancelUserRequests(u) /\ UNCHANGED <<now, gateVars, timedVars, extraVars>>
  \/ ClearQueue /\ UNCHANGED <<now, gateVars, timedVars, extraVars>>
  \/ \E c \in timers : Expire(c) /\ UNCHANGED <<now, gateVars, timedVars, extraVars>>
  \/ \E d \in PassSteps : Pass(d) /\ UNCHANGED <<queueVars, gateVars, timedVars, extraVars>>

\* time passes and due timers fire; nothing is assumed of release, cancel
\* and clear
FairExpiry ==
  /\ WF_vars(\E d \in PassSteps : Pass(d) /\ UNCHANGED <<queueVars, gateVars, timedVars, extraVars>>)
  /\ \A c \in 1..MaxOps :
       WF_vars(Expire(c) /\ UNCHANGED <<now, gateVars, timedVars, extraVars>>)

SpecExpiry == InitExpiry /\ [][NextExpiry]_vars /\ FairExpiry

\* ========================================================= gracefulShutdown
ShutdownWaitMs == 30000

\* the signals whose listener is installed with process.once
OnceSignals == {"SIGTERM", "SIGINT"}
Signals == OnceSignals \cup {"UNCAUGHT_EXCEPTION"}

\* the delays after which the poll timer of waitForCompletion fires here.
\* setTimeout(resolve, 100) gives a lower bound only; the timer is taken to
\* fire late, so that the wait of 30 s is over after a few polls, not 300
ShutdownDelays == {ShutdownWaitMs \div 2, ShutdownWaitMs}

\* variant: no guard against a shutdown in progress
EnterNoGuard(sh) ==
  [sh EXCEPT !.isShuttingDown = TRUE, !.pc = "bot.stop",
             !.log = Append(@, "bot.stop")]

\* gracefulShutdown up to its first await: the isShuttingDown guard, then
\* bot.stop() is called
Enter(sh) ==
  IF sh.isShuttingDown THEN sh
  ELSE [sh EXCEPT !.isShuttingDown = TRUE, !.pc = "bot.stop",
                  !.log = Append(@, "bot.stop")]

\* a signal or an uncaught exception arrives.  The listener of a once-signal
\* is removed when it has run: the same signal again meets no listener and
\* ends the process.
Signal(sig) ==
  /\ shutdown.pc # "exited"
  /\ shutdown.calls < MaxSignals
  /\ IF sig \in OnceSignals /\ sig \in shutdown.seen
     THEN shutdown' = [shutdown EXCEPT !.pc = "exited", !.exit = "signal",
                                       !.calls = @ + 1]
     ELSE shutdown' = [Enter(shutdown) EXCEPT !.seen = @ \cup {sig},
                                              !.calls = @ + 1]
  /\ UNCHANGED <<queueVars, now, gateVars, timedVars, recent, handlers, requestQueue>>

\* variant: waitForCompletion is started before the queue is cleared
StopStepsWaitFirst == <<"resourceMonitor.stop", "waitForCompletion", "clearQueue">>

\* what runs when bot.stop() has resolved, up to the next await
StopSteps == <<"resourceMonitor.stop", "clearQueue", "waitForCompletion">>

\* bot.stop() resolves: the resource monitor is stopped, the queue is
\* cleared and waitForCompletion(30000) makes its first test
StopDone ==
  LET n == clearQueue(queue, timers, promise)
  IN /\ shutdown.pc = "bot.stop"
     /\ waiter.pc = "idle"
     /\ queue' = n.queue
     /\ timers' = n.timers
     /\ promise' = n.promise
     /\ hist' = Record("clearQueue", 0, Len(queue))
     /\ waiter' = LoopTest([pc |-> "idle", startTime |-> now,
                            timeoutMs |-> ShutdownWaitMs, result |-> "none"], now)
     /\ shutdown' = [shutdown EXCEPT !.pc = "waitForCompletion",
                                     !.log = @ \o StopSteps]
     /\ UNCHANGED <<maxConcurrentPerUser, maxGlobalConcurrent, activeOperations,
                    totalActive, releaser, now, gateVars, due, recent, handlers,
                    requestQueue>>

\* an awaited step rejects: the catch block calls process.exit(1)
StepFails(step) ==
  /\ shutdown.pc = step
  /\ shutdown' = [shutdown EXCEPT !.pc = "exited", !.exit = "1",
                                  !.log = Append(@, "exit")]
  /\ UNCHANGED <<queueVars, now, gateVars, timedVars, recent, handlers, requestQueue>>

\* variant: a wait that timed out ends the process at once
AfterWaitForced(sh, completed) ==
  IF completed = "true"
  THEN [sh EXCEPT !.pc = "additionalCleanup", !.log = Append(@, "additionalCleanup")]
  ELSE [sh EXCEPT !.pc = "exited", !.exit = "1", !.log = Append(@, "exit")]

\* what follows await waitForCompletion: a warning when it returned false,
\* and additionalCleanup() is called
AfterWait(sh, completed) ==
  [sh EXCEPT !.pc = "additionalCleanup", !.log = Append(@, "additionalCleanup")]

\* waitForCompletion has returned
WaitDone ==
  /\ shutdown.pc = "waitForCompletion"
  /\ waiter.pc = "done"
  /\ shutdown' = AfterWait(shutdown, waiter.result)
  /\ UNCHANGED <<queueVars, now, gateVars, timedVars, recent, handlers, requestQueue>>

\* additionalCleanup() resolves and cleanupAllTempFiles() is called
CleanupDone ==
  /\ shutdown.pc = "additionalCleanup"
  /\ shutdown' = [shutdown EXCEPT !.pc = "cleanupAllTempFiles",
                                  !.log = Append(@, "cleanupAllTempFiles")]
  /\ UNCHANGED <<queueVars, now, gateVars, timedVars, recent, handlers, requestQueue>>

\* cleanupAllTempFiles() resolves (it catches its own errors) and
\* process.exit(0) is called
TempFilesDone ==
  /\ shutdown.pc = "cleanupAllTempFiles"
  /\ shutdown' = [shutdown EXCEPT !.pc = "exited", !.exit = "0",
                                  !.log = Append(@, "exit")]
  /\ UNCHANGED <<queueVars, now, gateVars, timedVars, recent, handlers, requestQueue>>

\* the process runs until it exits
Alive == shutdown.pc # "exited"

\* gracefulShutdown on a queue that handlers acquire from and release to
NextShutdown ==
  \/ \E u \in Users : Alive /\ Acquire(u) /\ UNCHANGED <<now, gateVars, timedVars, extraVars>>
  \/ \E c \in DOMAIN releaser :
       Alive /\ Release(c) /\ UNCHANGED <<now, gateVars, timedVars, extraVars>>
  \/ \E sig \in Signals : Signal(sig)
  \/ StopDone
  \/ \E step \in {"bot.stop", "additionalCleanup"} : StepFails(step)
  \/ \E d \in ShutdownDelays : Alive /\ WaitPoll(d) /\ UNCHANGED extraVars
  \/ WaitDone
  \/ CleanupDone
  \/ TempFilesDone

SpecShutdown == InitWait /\ [][NextShutdown]_vars

\* ====================================================== the bot as wired
\* The entry point makes requestQueue = new RequestQueue(
\* config.maxConcurrentDownloads, 5, 10 * 60 * 1000) and hands it to /cancel,
\* /status and the shutdown; the download handler makes its own
\* rateLimiter = new RateLimiter(config.maxConcurrentDownloads), RateLimiter
\* being an alias of RequestQueue.  The queue variables are the handler's
\* instance here, requestQueue is the entry point's.
DefaultGlobal == 5

\* the updates a user sends: a format selection, /cancel, anything else
Kinds == {"download", "cancel", "other"}

NextHandler == Cardinality(DOMAIN handlers) + 1

\* handleFormatSelection is entered for userId
Spawn(hs, userId) ==
  MapSet(hs, NextHandler,
         [userId |-> userId, pc |-> "start", call |-> 0, release |-> 0,
          outcome |-> "none"])

\* bot.command('cancel'): requestQueue.cancelUserRequests(userId)
CancelCommand(rq, userId) ==
  LET n == cancelUserRequests(rq.queue, rq.timers, rq.promise, userId)
  IN [rq EXCEPT !.queue = n.queue, !.timers = n.timers, !.promise = n.promise,
                !.hist = Append(@, [op |-> "cancelUserRequests", arg |-> userId,
                                    ret |-> n.cancelledCount])]

\* an update of userId passes through the middleware and, unless the
\* middleware returns early, reaches the handler of its kind
Update(userId, kind) ==
  /\ shutdown.pc \in {"running", "bot.stop"}
  /\ Middleware(userId)
  /\ IF lastCheck'.passed /\ userId # 0 /\ kind = "download"
     THEN /\ NextHandler <= MaxHandlers
          /\ handlers' = Spawn(handlers, userId)
          /\ UNCHANGED requestQueue
     ELSE IF lastCheck'.passed /\ userId # 0 /\ kind = "cancel"
     THEN /\ Len(requestQueue.hist) < MaxCommands
          /\ requestQueue' = CancelCommand(requestQueue, userId)
          /\ UNCHANGED handlers
     ELSE UNCHANGED <<handlers, requestQueue>>
  /\ UNCHANGED <<queueVars, timedVars, recent, shutdown>>

\* the handler returns before acquire: no message id, or no URL in the cache
HReturnEarly(h) ==
  /\ Alive
  /\ handlers[h].pc = "start"
  /\ handlers' = [handlers EXCEPT ![h].pc = "done"]
  /\ UNCHANGED <<queueVars, now, gateVars, timedVars, recent, shutdown, requestQueue>>

\* release = await rateLimiter.acquire(userId): the call
HAcquire(h) ==
  /\ Alive
  /\ handlers[h].pc = "start"
  /\ Acquire(handlers[h].userId)
  /\ handlers' = [handlers EXCEPT ![h].pc = "await", ![h].call = NextCall]
  /\ UNCHANGED <<now, gateVars, timedVars, recent, shutdown, requestQueue>>

\* the promise of acquire has settled: the handler goes on with the release
\* capability, or to its catch block with release still null
HResume(h) ==
  LET c == handlers[h].call
  IN /\ Alive
     /\ handlers[h].pc = "await"
     /\ promise[c].state # "pending"
     /\ handlers' =
          IF promise[c].state = "resolved"
          THEN [handlers EXCEPT ![h].pc = "download", ![h].release = c]
          ELSE [handlers EXCEPT ![h].pc = "finally", ![h].outcome = "rejected"]
     /\ UNCHANGED <<queueVars, now, gateVars, timedVars, recent, shutdown, requestQueue>>

\* downloadContent returns or throws; a throw goes through the catch block
HDownloadEnds(h, outcome) ==
  /\ Alive
  /\ handlers[h].pc = "download"
  /\ handlers' = [handlers EXCEPT ![h].pc = "finally", ![h].outcome = outcome]
  /\ UNCHANGED <<queueVars, now, gateVars, timedVars, recent, shutdown, requestQueue>>

\* variant: the slot is released on the success path only
ReleasesOnSuccess(hr) == hr.release # 0 /\ hr.outcome = "ok"

\* finally { if (release) release(); }
Releases(hr) == hr.release # 0

HFinally(h) ==
  /\ Alive
  /\ handlers[h].pc = "finally"
  /\ IF Releases(handlers[h])
     THEN Invoke(handlers[h].release)
     ELSE UNCHANGED queueVars
  /\ handlers' = [handlers EXCEPT ![h].pc = "done"]
  /\ UNCHANGED <<now, gateVars, timedVars, recent, shutdown, requestQueue>>

\* bot.stop() resolves in the shutdown of the bot as wired: the steps of
\* StopDone on the entry point's instance
StopDoneWired ==
  LET n == clearQueue(requestQueue.queue, requestQueue.timers, requestQueue.promise)
  IN /\ shutdown.pc = "bot.stop"
     /\ waiter.pc = "idle"
     /\ requestQueue' =
          [requestQueue EXCEPT !.queue = n.queue, !.timers = n.timers,
                               !.promise = n.promise,
                               !.hist = Append(@, [op |-> "clearQueue", arg |-> 0,
                                                   ret |-> Len(requestQueue.queue)])]
     /\ waiter' = LoopTestOn(requestQueue.totalActive,
                             [pc |-> "idle", startTime |-> now,
                              timeoutMs |-> ShutdownWaitMs, result |-> "none"], now)
     /\ shutdown' = [shutdown EXCEPT !.pc = "waitForCompletion",
                                     !.log = @ \o StopSteps]
     /\ UNCHANGED <<queueVars, now, gateVars, due, recent, handlers>>

\* new RateLimiter(config.maxConcurrentDownloads) with
\* MAX_CONCURRENT_DOWNLOADS=1
InitBot ==
  /\ maxConcurrentPerUser = 1
  /\ maxGlobalConcurrent = DefaultGlobal
  /\ Fresh

NextBot ==
  \/ \E u \in GateUsers \cup {0}, kind \in Kinds : Update(u, kind)
  \/ \E h \in DOMAIN handlers : HReturnEarly(h)
  \/ \E h \in DOMAIN handlers : HAcquire(h)
  \/ \E h \in DOMAIN handlers : HResume(h)
  \/ \E h \in DOMAIN handlers, outcome \in {"ok", "threw"} : HDownloadEnds(h, outcome)
  \/ \E h \in DOMAIN handlers : HFinally(h)
  \/ \E c \in timers :
       Alive /\ QueueTimeout(c) /\ UNCHANGED <<now, gateVars, timedVars, extraVars>>
  \/ \E sig \in Signals : Signal(sig)
  \/ StopDoneWired
  \/ \E step \in {"bot.stop", "additionalCleanup"} : StepFails(step)
  \/ WaitDone
  \/ CleanupDone
  \/ TempFilesDone

SpecBot == InitBot /\ [][NextBot]_vars

\* ------------------------------------------------------------ type check
TypeOK ==
  /\ totalActive \in Nat
  /\ DOMAIN activeOperations \subseteq Users
  /\ timers \subseteq DOMAIN promise

\* ======================================================== properties
\* the operation that led to the current state
LastOp == hist[Len(hist)]

\* ids of the requests that a release has promoted from the queue
Promoted == {hist[i].ret : i \in {j \in 1..Len(hist) : hist[j].op = "release"}} \ {0}

\* the step just taken is an operation of kind op (never a stuttering step)
StepOf(op) == hist' # hist /\ hist'[Len(hist')].op = op

\* the argument and the result of the step just taken
StepArg == hist'[Len(hist')].arg
StepRet == hist'[Len(hist')].ret

\* the queue q without the entry whose id is c
Without(q, c) == SelectSeq(q, LAMBDA e : e.id # c)

\* C1: in every reachable state no user holds more than maxConcurrentPerUser
\* active operations and totalActive is at most maxGlobalConcurrent.
C1_LimitsRespected ==
  /\ \A u \in Users : Get(activeOperations, u) <= maxConcurrentPerUser
  /\ totalActive <= maxGlobalConcurrent

\* both limits are reached, a request waits and a release has promoted one
C1_Witness ==
  /\ maxGlobalConcurrent > 0
  /\ totalActive = maxGlobalConcurrent
  /\ \E u \in Users : Get(activeOperations, u) = maxConcurrentPerUser
  /\ Len(queue) > 0
  /\ Promoted # {}

\* C2: in every reachable state totalActive is the sum of the per-user counts
\* of activeOperations, an absent key counting as zero.
C2_TotalIsSum == totalActive = MapSum(activeOperations)

\* two users are active, one of them through a promotion from the queue
C2_Witness ==
  /\ Cardinality(DOMAIN activeOperations) >= 2
  /\ totalActive >= 2
  /\ \E c \in Promoted : releaser[c].calls = 0

\* C3: an acquire call's promise is settled at most once; it is pending
\* exactly while its entry is in the queue (where it occurs once, with its
\* timer armed); it is settled as admitted (with a release capability),
\* cancelled, timed out or cleared; once settled it is out of the queue and
\* no later step settles it again or changes its outcome.
C3_Lifecycle ==
  \A c \in DOMAIN promise :
    /\ promise[c].settles <= 1
    /\ (promise[c].state = "pending") <=> (promise[c].settles = 0)
    /\ (promise[c].settles = 0) <=> (c \in QueueIds(queue))
    /\ Cardinality({i \in 1..Len(queue) : queue[i].id = c}) <= 1
    /\ (c \in timers) <=> (c \in QueueIds(queue))
    /\ (promise[c].state = "resolved") <=> (c \in DOMAIN releaser)
    /\ promise[c].state = "rejected" =>
         promise[c].error \in {ErrCancelled, ErrTimeout, ErrShutdown}

C3_SettledIsFinal ==
  \A c \in DOMAIN promise :
    promise[c].settles >= 1 =>
      /\ promise'[c] = promise[c]
      /\ c \notin QueueIds(queue')

C3_ExactlyOnce == [](C3_Lifecycle) /\ [][C3_SettledIsFinal]_vars

\* two queued requests have left the queue in different ways, one of them
\* admitted by a promotion, and later operations have run
C3_Witness ==
  /\ \E c \in Promoted : promise[c].state = "resolved"
  /\ \E c \in DOMAIN promise : promise[c].state = "rejected"
  /\ queue = <<>>

\* C4: a timeout that fires for an entry still in the queue removes that
\* entry, rejects it as timed out and leaves activeOperations and totalActive
\* unchanged; for an entry that is no longer in the queue the handler changes
\* nothing; an entry is never both promoted and expired.
C4_TimeoutStep ==
  StepOf("timeout") =>
    /\ activeOperations' = activeOperations
    /\ totalActive' = totalActive
    /\ releaser' = releaser
    /\ IF StepArg \in QueueIds(queue)
       THEN /\ queue' = Without(queue, StepArg)
            /\ Len(queue') = Len(queue) - 1
            /\ promise' = [promise EXCEPT ![StepArg] =
                 [state |-> "rejected", error |-> ErrTimeout, settles |-> 1]]
       ELSE /\ queue' = queue
            /\ promise' = promise

\* the handler of an entry that has left the queue finds nothing to do
C4_StaleHandler ==
  \A c \in DOMAIN promise \ QueueIds(queue) :
    cancelRequest(queue, timers, promise, c, ErrTimeout) =
      [queue |-> queue, timers |-> timers, promise |-> promise]

C4_OneWins ==
  \A c \in DOMAIN promise :
    /\ promise[c].settles <= 1
    /\ ~(c \in Promoted /\ promise[c].error = ErrTimeout)
    /\ c \in Promoted => c \notin timers

C4_TimeoutOrPromotion ==
  [](C4_StaleHandler /\ C4_OneWins) /\ [][C4_TimeoutStep]_vars

\* one queued entry has timed out and another has been promoted by a release
C4_Witness ==
  /\ \E c \in DOMAIN promise : promise[c].error = ErrTimeout
  /\ Promoted # {}

\* C5: acquire(u) admits immediately exactly when u is below the per-user
\* limit and totalActive is below the global limit; it then adds one to
\* activeOperations[u] and to totalActive and leaves the queue unchanged;
\* otherwise it appends one entry of u at the tail of the queue and leaves
\* activeOperations and totalActive unchanged.
C5_AcquireStep ==
  StepOf("acquire") =>
    LET u == StepArg
        c == Cardinality(DOMAIN promise) + 1
    IN IF Get(activeOperations, u) < maxConcurrentPerUser
          /\ totalActive < maxGlobalConcurrent
       THEN /\ StepRet = 1
            /\ Get(activeOperations', u) = Get(activeOperations, u) + 1
            /\ \A v \in Users \ {u} :
                 Get(activeOperations', v) = Get(activeOperations, v)
            /\ totalActive' = totalActive + 1
            /\ queue' = queue
            /\ promise'[c].state = "resolved"
            /\ c \in DOMAIN releaser'
       ELSE /\ StepRet = 0
            /\ Len(queue') = Len(queue) + 1
            /\ SubSeq(queue', 1, Len(queue)) = queue
            /\ queue'[Len(queue')] = [id |-> c, userId |-> u]
            /\ activeOperations' = activeOperations
            /\ totalActive' = totalActive
            /\ promise'[c].state = "pending"

C5_AcquireAdmitsOrQueues == [][C5_AcquireStep]_vars

\* acquire has admitted at once, has queued for the per-user limit with the
\* global limit not reached, and has queued behind another entry
C5_Witness ==
  /\ \E i \in 1..Len(hist) : hist[i].op = "acquire" /\ hist[i].ret = 1
  /\ LastOp.op = "acquire" /\ LastOp.ret = 0
  /\ Len(queue) >= 2
  /\ totalActive < maxGlobalConcurrent
\* --- the counters as a release leaves them before it scans the queue
\* the user of the capability invoked by the step just taken
StepUser == releaser[StepArg].userId

CountAfterRelease(v) ==
  IF v = StepUser /\ Get(activeOperations, v) > 0
  THEN Get(activeOperations, v) - 1
  ELSE Get(activeOperations, v)

TotalAfterRelease == IF totalActive > 0 THEN totalActive - 1 ELSE 0

\* indices of the entries whose user is below the per-user limit at the scan
EligibleAtScan ==
  {i \in 1..Len(queue) : CountAfterRelease(queue[i].userId) < maxConcurrentPerUser}

\* C6: the scan run after a release promotes the entry closest to the head
\* whose user is below maxConcurrentPerUser, provided totalActive is below
\* maxGlobalConcurrent; the entries ahead of it stay queued in their order;
\* with no eligible entry, or at the global limit, nothing is promoted.
C6_ScanStep ==
  StepOf("release") =>
    IF TotalAfterRelease < maxGlobalConcurrent /\ EligibleAtScan # {}
    THEN LET m == CHOOSE i \in EligibleAtScan : \A j \in EligibleAtScan : i <= j
         IN /\ StepRet = queue[m].id
            /\ promise'[queue[m].id].state = "resolved"
            /\ Len(queue') = Len(queue) - 1
            /\ \A i \in 1..(m - 1) : queue'[i] = queue[i]
            /\ \A i \in m..Len(queue') : queue'[i] = queue[i + 1]
    ELSE /\ StepRet = 0
         /\ queue' = queue
         /\ promise' = promise

C6_FirstEligiblePromoted == [][C6_ScanStep]_vars

\* the last release has promoted an entry past an earlier one that still waits
C6_Witness ==
  /\ Len(hist) > 0
  /\ LastOp.op = "release"
  /\ LastOp.ret # 0
  /\ \E i \in 1..Len(queue) : queue[i].id < LastOp.ret

\* C7: one invocation of a release capability promotes at most one queued
\* entry, and a promotion adds exactly one to activeOperations of the
\* promoted user and to totalActive.
C7_ReleaseStep ==
  StepOf("release") =>
    LET newly == {c \in DOMAIN promise :
                    promise[c].state = "pending" /\ promise'[c].state # "pending"}
    IN /\ Cardinality(newly) <= 1
       /\ Len(queue') >= Len(queue) - 1
       /\ newly = IF StepRet = 0 THEN {} ELSE {StepRet}
       /\ IF StepRet = 0
          THEN /\ totalActive' = TotalAfterRelease
               /\ \A v \in Users : Get(activeOperations', v) = CountAfterRelease(v)
          ELSE /\ totalActive' = TotalAfterRelease + 1
               /\ \A v \in Users :
                    Get(activeOperations', v) =
                      CountAfterRelease(v)
                        + (IF v = releaser'[StepRet].userId THEN 1 ELSE 0)

C7_OnePromotionPerRelease == [][C7_ReleaseStep]_vars

\* the last release promoted one entry while an entry of another user, below
\* the per-user limit, was waiting too
C7_Witness ==
  /\ Len(hist) > 0
  /\ LastOp.op = "release"
  /\ LastOp.ret # 0
  /\ \E i \in 1..Len(queue) :
       /\ queue[i].userId # releaser[LastOp.ret].userId
       /\ Get(activeOperations, queue[i].userId) < maxConcurrentPerUser

\* --- the scenario of C8: limits 1 and 2, a acquires twice, then b once
Scenario8(a, b) ==
  /\ a # b
  /\ maxConcurrentPerUser = 1
  /\ maxGlobalConcurrent = 2
  /\ Len(hist) >= 3
  /\ hist[1].op = "acquire" /\ hist[1].arg = a
  /\ hist[2].op = "acquire" /\ hist[2].arg = a
  /\ hist[3].op = "acquire" /\ hist[3].arg = b

\* ... followed by the release of the capability of the first call
Scenario8Released(a, b) ==
  /\ Scenario8(a, b)
  /\ Len(hist) >= 4
  /\ hist[4].op = "release" /\ hist[4].arg = 1

\* C8 as stated: A1 is admitted, A2 and B1 are queued, and the release of A1
\* admits B1 (call 3) and not A2 (call 2).
C8_AsStated ==
  \A a, b \in Users :
    /\ Scenario8(a, b) =>
         hist[1].ret = 1 /\ hist[2].ret = 0 /\ hist[3].ret = 0
    /\ Scenario8Released(a, b) => hist[4].ret = 3

\* C8 amended: with limits 1 and 2, A1 is admitted, A2 is queued and B1 is
\* admitted at once (B holds nothing and totalActive is 1); the release of A1
\* then admits A2, the only entry waiting.
C8_BAdmittedAtOnce ==
  \A a, b \in Users :
    /\ Scenario8(a, b) =>
         /\ hist[1].ret = 1 /\ hist[2].ret = 0 /\ hist[3].ret = 1
         /\ Len(hist) = 3 =>
              /\ queue = <<[id |-> 2, userId |-> a]>>
              /\ totalActive = 2
              /\ promise[3].state = "resolved"
    /\ Scenario8Released(a, b) =>
         /\ hist[4].ret = 2
         /\ Len(hist) = 4 =>
              /\ queue = <<>>
              /\ promise[2].state = "resolved"
              /\ Get(activeOperations, a) = 1
              /\ Get(activeOperations, b) = 1
              /\ totalActive = 2

\* the scenario has just run to the release of A1
C8_Witness ==
  /\ Len(hist) = 4
  /\ \E a, b \in Users : Scenario8Released(a, b)

\* C9: cancelUserRequests(u) removes exactly the entries of u, rejects each
\* as cancelled, returns their number, and leaves activeOperations,
\* totalActive and the other users' entries, in their order, unchanged.
C9_CancelStep ==
  StepOf("cancelUserRequests") =>
    LET u == StepArg
        mine == {queue[i].id : i \in {j \in 1..Len(queue) : queue[j].userId = u}}
    IN /\ StepRet = Cardinality(mine)
       /\ queue' = SelectSeq(queue, LAMBDA e : e.userId # u)
       /\ \A c \in DOMAIN promise :
            promise'[c] = IF c \in mine
                          THEN [state |-> "rejected", error |-> ErrCancelled,
                                settles |-> 1]
                          ELSE promise[c]
       /\ activeOperations' = activeOperations
       /\ totalActive' = totalActive
       /\ releaser' = releaser

C9_CancelRemovesOwnEntries == [][C9_CancelStep]_vars

\* the last call cancelled two entries of a user who holds an active slot,
\* and left an entry of another user in the queue
C9_Witness ==
  /\ Len(hist) > 0
  /\ LastOp.op = "cancelUserRequests"
  /\ LastOp.ret >= 2
  /\ Get(activeOperations, LastOp.arg) > 0
  /\ Len(queue) > 0

\* C10: clearQueue rejects every entry that is in the queue as system
\* shutdown, leaves the queue empty and leaves activeOperations and
\* totalActive unchanged.
C10_ClearStep ==
  StepOf("clearQueue") =>
    /\ queue' = <<>>
    /\ \A c \in DOMAIN promise :
         promise'[c] = IF c \in QueueIds(queue)
                       THEN [state |-> "rejected", error |-> ErrShutdown,
                             settles |-> 1]
                       ELSE promise[c]
    /\ activeOperations' = activeOperations
    /\ totalActive' = totalActive
    /\ releaser' = releaser

C10_ClearRejectsAll == [][C10_ClearStep]_vars

\* the last call cleared two entries while operations were active
C10_Witness ==
  /\ Len(hist) > 0
  /\ LastOp.op = "clearQueue"
  /\ LastOp.ret >= 2
  /\ queue = <<>>
  /\ totalActive > 0
  /\ \E c \in DOMAIN promise : promise[c].error = ErrShutdown

\* --- operations that hold a slot: admitted, capability not yet invoked
Running == {c \in DOMAIN releaser : releaser[c].calls = 0}

RunningOf(u) == {c \in Running : releaser[c].userId = u}

\* number of release invocations made so far
Invocations == Cardinality({i \in 1..Len(hist) : hist[i].op = "release"})

\* the step just taken invokes a capability that had been invoked before
StepIsRepeatedRelease == StepOf("release") /\ releaser[StepArg].calls >= 1

\* C12: a second invocation of the same release capability leaves
\* activeOperations, totalActive and the queue as the first one left them.
C12_RepeatedReleaseStep ==
  StepIsRepeatedRelease =>
    /\ activeOperations' = activeOperations
    /\ totalActive' = totalActive
    /\ queue' = queue

C12_ReleaseIdempotent == [][C12_RepeatedReleaseStep]_vars

\* C13: no sequence of release invocations, repeated ones included, makes
\* totalActive or a user's count negative, and activeOperations never stores
\* a value below 1.
C13_NeverNegative ==
  /\ totalActive >= 0
  /\ \A u \in Users : Get(activeOperations, u) >= 0
  /\ \A u \in DOMAIN activeOperations : activeOperations[u] >= 1

\* more invocations than capabilities have been made and the counters are at
\* zero: one invocation at least found nothing to decrement
C13_Witness ==
  /\ Invocations > Cardinality(DOMAIN releaser)
  /\ \E c \in DOMAIN releaser : releaser[c].calls >= 2
  /\ totalActive = 0
  /\ DOMAIN activeOperations = {}

\* C14: also with repeated invocations, the operations that hold a slot
\* (admitted, capability not yet invoked) never number more than
\* maxGlobalConcurrent, nor more than maxConcurrentPerUser for one user.
C14_RunningWithinLimits ==
  /\ Cardinality(Running) <= maxGlobalConcurrent
  /\ \A u \in Users : Cardinality(RunningOf(u)) <= maxConcurrentPerUser

\* C15: a user's requests are admitted in the order of the user's acquire
\* calls: a release never promotes an entry while an earlier entry of the
\* same user waits, and acquire never admits a user at once while an entry of
\* that user waits (each capability invoked at most once).
C15_OrderStep ==
  /\ StepOf("release") /\ StepRet # 0 =>
       \A i \in 1..Len(queue) :
         queue[i].userId = releaser'[StepRet].userId => queue[i].id >= StepRet
  /\ StepOf("acquire") /\ StepRet = 1 =>
       \A i \in 1..Len(queue) : queue[i].userId # StepArg

C15_PerUserOrder == [][C15_OrderStep]_vars

\* the last release promoted the first of two waiting entries of one user
C15_Witness ==
  /\ Len(hist) > 0
  /\ LastOp.op = "release"
  /\ LastOp.ret # 0
  /\ \E i \in 1..Len(queue) :
       /\ queue[i].userId = releaser[LastOp.ret].userId
       /\ queue[i].id > LastOp.ret

\* --- promises settled by the step just taken
NewlyRejected ==
  {c \in DOMAIN promise :
     promise[c].state = "pending" /\ promise'[c].state = "rejected"}

NewlyResolved ==
  {c \in DOMAIN promise' :
     /\ promise'[c].state = "resolved"
     /\ c \in DOMAIN promise => promise[c].state = "pending"}

\* C17: the entries removed by cancelUserRequests, by their timeout and by
\* clearQueue are rejected with three pairwise different errors, and an
\* admitted entry is resolved with a release capability and never rejected.
C17_SignalStep ==
  /\ \A c \in NewlyRejected :
       /\ StepOf("cancelUserRequests") => promise'[c].error = ErrCancelled
       /\ StepOf("timeout") => promise'[c].error = ErrTimeout
       /\ StepOf("clearQueue") => promise'[c].error = ErrShutdown
       /\ ~StepOf("acquire") /\ ~StepOf("release")
  /\ \A c \in NewlyResolved :
       /\ c \in DOMAIN releaser'
       /\ StepOf("acquire") \/ StepOf("release")
  /\ \A c \in DOMAIN promise :
       promise[c].state = "resolved" => promise'[c] = promise[c]

C17_SignalsDiffer ==
  /\ ErrCancelled # ErrTimeout
  /\ ErrCancelled # ErrShutdown
  /\ ErrTimeout # ErrShutdown
  /\ \A c \in DOMAIN promise :
       /\ promise[c].state = "rejected" =>
            /\ c \notin DOMAIN releaser
            /\ promise[c].error \in {ErrCancelled, ErrTimeout, ErrShutdown}
       /\ promise[c].state = "resolved" => promise[c].error = ""

C17_DistinctOutcomes == [](C17_SignalsDiffer) /\ [][C17_SignalStep]_vars

\* entries have been rejected with two different errors and one entry has
\* been admitted from the queue
C17_Witness ==
  /\ \E c, d \in DOMAIN promise :
       /\ promise[c].state = "rejected"
       /\ promise[d].state = "rejected"
       /\ promise[c].error # promise[d].error
  /\ \E c \in DOMAIN releaser : promise[c].state = "resolved"

\* C18: with maxConcurrentPerUser = 0 or maxGlobalConcurrent = 0 no acquire
\* is ever admitted: every call is queued, totalActive stays 0 and no release
\* capability exists; an entry waits until it is rejected as timed out,
\* cancelled or cleared.
C18_ZeroLimitQueuesAll ==
  (maxConcurrentPerUser = 0 \/ maxGlobalConcurrent = 0) =>
    /\ totalActive = 0
    /\ DOMAIN activeOperations = {}
    /\ DOMAIN releaser = {}
    /\ \A i \in 1..Len(hist) :
         /\ hist[i].op = "acquire" => hist[i].ret = 0
         /\ hist[i].op # "release"
    /\ Cardinality(DOMAIN promise) =
         Cardinality({i \in 1..Len(hist) : hist[i].op = "acquire"})
    /\ \A c \in DOMAIN promise :
         \/ promise[c].state = "pending" /\ c \in QueueIds(queue) /\ c \in timers
         \/ /\ promise[c].state = "rejected"
            /\ promise[c].error \in {ErrTimeout, ErrCancelled, ErrShutdown}

\* with a zero limit, one call waits, another has been rejected, and the
\* queue has gone through acquire and a removal
C18_Witness ==
  /\ maxConcurrentPerUser = 0 \/ maxGlobalConcurrent = 0
  /\ Len(queue) >= 1
  /\ \E c \in DOMAIN promise : promise[c].state = "rejected"
  /\ Len(hist) >= 3

\* --- the scenario of C19: a, b, c and d acquire once each, in that order
Scenario19(a, b, c, d) ==
  /\ Cardinality({a, b, c, d}) = 4
  /\ maxConcurrentPerUser = 2
  /\ maxGlobalConcurrent = 3
  /\ Len(hist) >= 4
  /\ hist[1].op = "acquire" /\ hist[1].arg = a
  /\ hist[2].op = "acquire" /\ hist[2].arg = b
  /\ hist[3].op = "acquire" /\ hist[3].arg = c
  /\ hist[4].op = "acquire" /\ hist[4].arg = d

\* ... followed by the release of a's capability
Scenario19Released(a, b, c, d) ==
  /\ Scenario19(a, b, c, d)
  /\ Len(hist) >= 5
  /\ hist[5].op = "release" /\ hist[5].arg = 1

\* C19: with limits 2 and 3, A, B and C are admitted at once and D is
\* queued; when A releases, D is admitted; the statistics then show
\* totalActive = 3 and totalQueued = 0.
C19_FourUsers ==
  \A a, b, c, d \in ScenarioUsers :
    /\ Scenario19(a, b, c, d) =>
         /\ hist[1].ret = 1 /\ hist[2].ret = 1 /\ hist[3].ret = 1
         /\ hist[4].ret = 0
         /\ Len(hist) = 4 =>
              /\ queue = <<[id |-> 4, userId |-> d]>>
              /\ getStats.totalActive = 3
              /\ getStats.totalQueued = 1
    /\ Scenario19Released(a, b, c, d) =>
         /\ hist[5].ret = 4
         /\ Len(hist) = 5 =>
              /\ promise[4].state = "resolved"
              /\ getStats.totalActive = 3
              /\ getStats.totalQueued = 0
              /\ getStats.activeByUser = (b :> 1) @@ (c :> 1) @@ (d :> 1)

\* the scenario has just run to the release of A
C19_Witness ==
  /\ Len(hist) = 5
  /\ \E a, b, c, d \in ScenarioUsers : Scenario19Released(a, b, c, d)

\* --- steps of the rate gate
\* the step just taken is a run of the middleware for user u
GateStepOf(u) ==
  /\ u # 0
  /\ lastCheck'.userId = u
  /\ now' = now
  /\ DOMAIN userLimits \subseteq DOMAIN userLimits'
  /\ <<userLimits, windowChecks>>' # <<userLimits, windowChecks>>

\* u has an entry whose minute window is still open
InWindow(u) ==
  u \in DOMAIN userLimits /\ now < userLimits[u].windowResets.minute

\* C20: with perMinute = 10, the first 10 checks of a user inside one minute
\* window are allowed, a further check inside that window is rejected with
\* a retry hint of at least 1 second, and the first check at or after the
\* window's deadline is allowed again.
C20_GateStep ==
  \A u \in GateUsers :
    GateStepOf(u) =>
      IF InWindow(u)
      THEN IF windowChecks[u] < PerMinute
           THEN ~lastCheck'.limited /\ lastCheck'.passed
           ELSE /\ lastCheck'.limited
                /\ lastCheck'.timeRemaining >= 1
                /\ lastCheck'.timeRemaining * MsPerSecond
                     >= userLimits[u].windowResets.minute - now
                /\ ~lastCheck'.passed
      ELSE /\ ~lastCheck'.limited
           /\ lastCheck'.passed
           /\ windowChecks'[u] = 1

C20_TenPerWindow == PerMinute = 10 /\ [][C20_GateStep]_vars

\* the eleventh check of a window has just been rejected, a millisecond
\* before the deadline
C20_Witness ==
  /\ lastCheck.userId \in GateUsers
  /\ lastCheck.limited
  /\ lastCheck.timeRemaining = 1
  /\ windowChecks[lastCheck.userId] = PerMinute + 1

\* --- waitForCompletion
\* the step just taken is the return of waitForCompletion
WaitReturns == waiter.pc # "done" /\ waiter'.pc = "done"

\* C11 (safety): waitForCompletion returns true only on observing
\* totalActive = 0, returns false only when more than timeoutMs has elapsed
\* since its start while totalActive > 0, and none of its steps changes
\* activeOperations, totalActive or the queue.
C11_WaitStep ==
  /\ WaitReturns /\ waiter'.result = "true" => totalActive = 0
  /\ WaitReturns /\ waiter'.result = "false" =>
       /\ totalActive > 0
       /\ now' - waiter'.startTime > waiter'.timeoutMs
  /\ WaitReturns => waiter'.result \in {"true", "false"}
  /\ waiter' # waiter =>
       UNCHANGED <<activeOperations, totalActive, queue, timers, promise, releaser>>

\* C11 (termination): a call of waitForCompletion that sleeps returns
C11_Terminates == (waiter.pc = "waiting") ~> (waiter.pc = "done")

\* C11: waitForCompletion(timeoutMs) returns true only when it observes
\* totalActive = 0 and false only when more than timeoutMs has elapsed while
\* totalActive > 0; it always terminates when its poll timer fires, and it
\* never changes activeOperations, totalActive or the queue.
C11_WaitForCompletion == [][C11_WaitStep]_vars /\ C11_Terminates

\* waitForCompletion has slept and returned false with an operation running
C11_Witness ==
  /\ waiter.pc = "done"
  /\ waiter.result = "false"
  /\ waiter.timeoutMs = PollInterval
  /\ totalActive > 0
  /\ Len(queue) > 0

\* --- the queue timeout
\* the acquire call c is waiting in the queue
Waiting(c) == c \in DOMAIN promise /\ promise[c].state = "pending"

\* C16 (bound): a call that is still waiting has its timer armed, and no
\* more than queueTimeout has elapsed since it was enqueued.
C16_Deadline ==
  \A c \in DOMAIN promise :
    Waiting(c) =>
      /\ c \in timers
      /\ c \in QueueIds(queue)
      /\ c \in DOMAIN due
      /\ now <= due[c]

\* C16 (progress): every call that waits is resolved or rejected.
C16_Settled ==
  \A c \in 1..MaxOps : Waiting(c) ~> (c \in DOMAIN promise /\ ~Waiting(c))

\* C16: assuming timers fire, every acquire call that was queued is
\* eventually resolved or rejected, at the latest when queueTimeout has
\* elapsed since it was enqueued, whether or not a release, cancel or clear
\* ever happens.
C16_BoundedWait == []C16_Deadline /\ C16_Settled

\* without any release, cancel or clear, a queued call has been rejected by
\* its timer exactly queueTimeout after it was enqueued, later than another
C16_Witness ==
  /\ \A i \in 1..Len(hist) : hist[i].op \in {"acquire", "timeout"}
  /\ \E c \in DOMAIN due :
       /\ promise[c].state = "rejected"
       /\ promise[c].error = ErrTimeout
       /\ now = due[c]
       /\ due[c] > QueueTimeoutMs

\* --- the windows of the rate gate
\* C21: for every user and every interval of 60 seconds, at most perMinute
\* checks of that user falling inside the interval are allowed (stated for
\* the intervals that end now, which every interval with a check in it is
\* at the time of its last check).
C21_RollingCap ==
  \A u \in DOMAIN recent : MapSum(recent[u]) <= PerMinute

\* the requestCount the check of user u starts from: zero for a user not
\* seen before and for a minute window that has ended
CountBefore(u) ==
  IF u \notin DOMAIN userLimits THEN 0
  ELSE IF now >= userLimits[u].windowResets.minute THEN 0
  ELSE userLimits[u].requestCount

\* C22 (steps): a rejected check leaves requestCount as it was, an allowed
\* check adds exactly one to it, after the reset of the minute window if
\* there was one (a user not seen before starts from zero).
C22_CountStep ==
  \A u \in GateUsers :
    GateStepOf(u) =>
      IF lastCheck'.limited
      THEN /\ u \in DOMAIN userLimits
           /\ userLimits'[u].requestCount = userLimits[u].requestCount
      ELSE userLimits'[u].requestCount = CountBefore(u) + 1

\* C22 (range): 0 <= requestCount <= perMinute for every tracked user
C22_CountRange ==
  \A u \in DOMAIN userLimits :
    userLimits[u].requestCount >= 0 /\ userLimits[u].requestCount <= PerMinute

\* C22: a rejected rate-limit check leaves the user's requestCount unchanged
\* and an allowed check increases it by exactly one (after any window
\* reset); in every reachable state 0 <= requestCount <= perMinute for every
\* tracked user.
C22_Counter == []C22_CountRange /\ [][C22_CountStep]_vars

\* a check has been rejected in a window that began after a reset, and the
\* count stands at the limit
C22_Witness ==
  /\ lastCheck.userId \in DOMAIN userLimits
  /\ lastCheck.limited
  /\ userLimits[lastCheck.userId].requestCount = PerMinute
  /\ userLimits[lastCheck.userId].windowResets.minute > MinuteMs

\* the deadlines of user u before and after the step
Deadline(u) == userLimits[u].windowResets
DeadlineAfter(u) == userLimits'[u].windowResets

\* C27 as stated: when a check finds now >= the deadline of a granularity,
\* that deadline is advanced by exactly the granularity's length (60 s, 1 h,
\* 24 h), independently of the other two granularities, and for the minute
\* granularity the counter restarts from zero before the request is counted.
C27_AdvanceStep ==
  \A u \in GateUsers :
    GateStepOf(u) /\ u \in DOMAIN userLimits =>
      /\ DeadlineAfter(u).minute =
           IF now >= Deadline(u).minute THEN Deadline(u).minute + MinuteMs
           ELSE Deadline(u).minute
      /\ DeadlineAfter(u).hour =
           IF now >= Deadline(u).hour THEN Deadline(u).hour + HourMs
           ELSE Deadline(u).hour
      /\ DeadlineAfter(u).day =
           IF now >= Deadline(u).day THEN Deadline(u).day + DayMs
           ELSE Deadline(u).day
      /\ now >= Deadline(u).minute => userLimits'[u].requestCount = 1

C27_AdvancedByLength == [][C27_AdvanceStep]_vars

\* C27 amended: the deadline of a granularity that has been reached is set
\* to now plus the granularity's length, independently of the other two
\* granularities, and a deadline not reached stays; on a minute reset the
\* counter restarts from zero before the request is counted.
C27_ResetStep ==
  \A u \in GateUsers :
    GateStepOf(u) /\ u \in DOMAIN userLimits =>
      /\ DeadlineAfter(u).minute =
           IF now >= Deadline(u).minute THEN now + MinuteMs
           ELSE Deadline(u).minute
      /\ DeadlineAfter(u).hour =
           IF now >= Deadline(u).hour THEN now + HourMs
           ELSE Deadline(u).hour
      /\ DeadlineAfter(u).day =
           IF now >= Deadline(u).day THEN now + DayMs
           ELSE Deadline(u).day
      /\ now >= Deadline(u).minute =>
           ~lastCheck'.limited /\ userLimits'[u].requestCount = 1

C27_ResetToNow == [][C27_ResetStep]_vars

\* a check has just reset the hour window, later than its deadline, and
\* neither the minute window nor the day window
C27_Witness ==
  \E u \in DOMAIN userLimits :
    /\ lastCheck.userId = u
    /\ Deadline(u).hour = now + HourMs
    /\ now > userLimits[u].firstRequestTime + HourMs
    /\ Deadline(u).minute # now + MinuteMs
    /\ Deadline(u).day = userLimits[u].firstRequestTime + DayMs

\* --- work conservation
\* C26: after every operation of RequestQueue (each release capability
\* invoked at most once) no queued entry is eligible: for every queued entry
\* its user's activeOperations equals maxConcurrentPerUser or totalActive
\* equals maxGlobalConcurrent.
C26_NoIdleSlot ==
  \A i \in 1..Len(queue) :
    \/ Get(activeOperations, queue[i].userId) = maxConcurrentPerUser
    \/ totalActive = maxGlobalConcurrent

\* a release has found no request to promote although requests wait and a
\* global slot is free
C26_Witness ==
  /\ Len(queue) > 0
  /\ totalActive < maxGlobalConcurrent
  /\ Len(hist) > 0
  /\ LastOp.op = "release"
  /\ LastOp.ret = 0

\* --- gracefulShutdown
\* the position of the first call of step in the log of the shutdown, 0 when
\* it has not been called
Called(step) ==
  LET at == {i \in 1..Len(shutdown.log) : shutdown.log[i] = step}
  IN IF at = {} THEN 0 ELSE CHOOSE i \in at : \A j \in at : i <= j

\* the number of calls of step in the log of the shutdown
Calls(step) == Cardinality({i \in 1..Len(shutdown.log) : shutdown.log[i] = step})

\* C24: in gracefulShutdown clearQueue is called before waitForCompletion,
\* both after bot.stop, and additionalCleanup, the temp-file cleanup and the
\* process exit follow waitForCompletion whether it returned true or false:
\* no exit follows the wait without additionalCleanup having been called,
\* and a shutdown that ends with exit(0) has run every step in order.
C24_ShutdownOrder ==
  /\ Called("clearQueue") > 0 =>
       0 < Called("bot.stop") /\ Called("bot.stop") < Called("clearQueue")
  /\ Called("waitForCompletion") > 0 =>
       0 < Called("clearQueue")
       /\ Called("clearQueue") < Called("waitForCompletion")
  /\ Called("waitForCompletion") > 0 /\ Called("exit") > 0 =>
       /\ waiter.result \in {"true", "false"}
       /\ Called("waitForCompletion") < Called("additionalCleanup")
       /\ Called("additionalCleanup") < Called("exit")
  /\ shutdown.exit = "0" =>
       shutdown.log = <<"bot.stop", "resourceMonitor.stop", "clearQueue",
                        "waitForCompletion", "additionalCleanup",
                        "cleanupAllTempFiles", "exit">>

\* the shutdown has run to exit(0) after a wait that timed out with an
\* operation still running
C24_Witness ==
  /\ shutdown.exit = "0"
  /\ waiter.result = "false"
  /\ totalActive > 0

\* C25: once the shutdown sequence has called clearQueue, the wait queue
\* stays empty and no acquire caller is suspended, until the process exits.
C25_QueueStaysEmpty ==
  Called("clearQueue") > 0 =>
    /\ Len(queue) = 0
    /\ \A c \in DOMAIN promise : promise[c].state # "pending"

\* C30 (state): no step of the shutdown sequence is called twice
C30_StepsOnce ==
  /\ \A step \in {"bot.stop", "resourceMonitor.stop", "clearQueue",
                  "waitForCompletion", "additionalCleanup",
                  "cleanupAllTempFiles", "exit"} : Calls(step) <= 1
  /\ Cardinality({i \in 1..Len(hist) : hist[i].op = "clearQueue"}) <= 1

\* C30 (steps): a signal or uncaught exception that arrives once
\* isShuttingDown is set calls nothing and leaves the shutdown where it is
\* (a once-signal that arrives again ends the process)
C30_SignalStep ==
  shutdown.isShuttingDown /\ shutdown'.calls > shutdown.calls =>
    /\ shutdown'.log = shutdown.log
    /\ shutdown'.pc = shutdown.pc \/ shutdown'.exit = "signal"
    /\ UNCHANGED <<queueVars, waiter>>

\* C30: the shutdown sequence runs at most once per process: after the
\* first gracefulShutdown has set isShuttingDown, a further signal or
\* uncaught exception calls none of bot.stop, clearQueue, waitForCompletion
\* or the cleanup steps again, whenever it arrives.
C30_ShutdownOnce == []C30_StepsOnce /\ [][C30_SignalStep]_vars

\* two further signals have arrived while the shutdown was awaiting, and it
\* has run to its end
C30_Witness ==
  /\ shutdown.calls = MaxSignals
  /\ shutdown.seen = Signals
  /\ shutdown.exit = "0"

\* --- the bot as wired
\* C23: a request the middleware finds limited never reaches a later
\* handler: the reported time remaining is never 0, the middleware returns
\* without calling next(), no handler is entered, and neither queue
\* instance changes (no acquire, no entry in the wait queue, activeOperations
\* and totalActive as they were).
C23_LimitedStep ==
  \A u \in GateUsers :
    GateStepOf(u) /\ lastCheck'.limited =>
      /\ lastCheck'.timeRemaining >= 1
      /\ ~lastCheck'.passed
      /\ UNCHANGED <<handlers, requestQueue, queueVars>>

C23_LimitedStopsHere == [][C23_LimitedStep]_vars

\* a check has been rejected while a handler of the same user holds a slot
\* and another waits in the queue
C23_Witness ==
  /\ lastCheck.limited
  /\ ~lastCheck.passed
  /\ Len(queue) > 0
  /\ totalActive > 0
  /\ \A h \in DOMAIN handlers : handlers[h].userId = lastCheck.userId

\* the handler invocation h is suspended in acquire
Suspended(h) ==
  /\ handlers[h].pc = "await"
  /\ promise[handlers[h].call].state = "pending"

\* the step just taken is /cancel of user u
CancelStepOf(u) ==
  /\ requestQueue'.hist # requestQueue.hist
  /\ requestQueue'.hist[Len(requestQueue'.hist)].op = "cancelUserRequests"
  /\ requestQueue'.hist[Len(requestQueue'.hist)].arg = u

\* C28 (cancel): when user u issues /cancel, no download request of u stays
\* waiting in the handler's acquire
C28_CancelStep ==
  \A u \in GateUsers :
    CancelStepOf(u) =>
      \A h \in DOMAIN handlers :
        handlers[h].userId = u => ~Suspended(h)'

\* C28 (shutdown): once the shutdown has cleared the queue, no download
\* request waits in the handler's acquire
C28_ShutdownDrains ==
  Called("clearQueue") > 0 => \A h \in DOMAIN handlers : ~Suspended(h)

\* C28: the queue on which /cancel calls cancelUserRequests and on which
\* gracefulShutdown calls clearQueue and waitForCompletion is the one the
\* download handler acquires from: a download request of user u waiting in
\* the handler's acquire is rejected when u issues /cancel, and is rejected
\* at shutdown.
C28_SameInstance == []C28_ShutdownDrains /\ [][C28_CancelStep]_vars

\* C29: in handleFormatSelection every slot obtained from acquire is
\* released exactly once, whether the download succeeds or throws, no
\* release is invoked when acquire is rejected, and after all handler
\* invocations have finished totalActive is 0.
C29_ReleasedOnce ==
  /\ \A c \in DOMAIN releaser : releaser[c].calls <= 1
  /\ \A h \in DOMAIN handlers :
       handlers[h].pc = "done" /\ handlers[h].call # 0 =>
         IF promise[handlers[h].call].state = "resolved"
         THEN /\ handlers[h].release = handlers[h].call
              /\ releaser[handlers[h].call].calls = 1
         ELSE /\ handlers[h].release = 0
              /\ handlers[h].call \notin DOMAIN releaser
  /\ (\A h \in DOMAIN handlers : handlers[h].pc = "done") =>
       totalActive = 0 /\ activeOperations = <<>>

\* two invocations have finished: one whose download threw, one whose
\* acquire was rejected
C29_Witness ==
  /\ DOMAIN handlers # {}
  /\ \A h \in DOMAIN handlers : handlers[h].pc = "done"
  /\ \E h \in DOMAIN handlers : handlers[h].outcome = "threw"
  /\ \E h \in DOMAIN handlers : handlers[h].outcome = "rejected"

====
